---- MODULE Spec2Model ----
(***************************************************************************)
(* Model of the Oura daily-message service: DailyMessageService            *)
(* (src/app/services/daily_message.py), the Metrics Source and Text        *)
(* Generator it awaits (src/app/clients/oura.py, openai_client.py) and the *)
(* post-processing of its result by the web layer (src/app/web/main.py).   *)
(*                                                                         *)
(* Representation of Python values:                                        *)
(*   - a str is PyStr(s), s a sequence of tokens (each a TLA+ string); the *)
(*     token " " is whitespace, so PyStr(<<>>) is the empty (falsy) str;   *)
(*   - a dict is a function from its present keys to values;               *)
(*   - None is PyNone, an int n is PyInt(n), a float with two decimals is  *)
(*     Hundredths(n);                                                      *)
(*   - a date is an integer day number, its ISO text is Iso(d);            *)
(*   - an instant is an integer count of minutes (UTC); an aware datetime  *)
(*     is kept as its wall-clock reading in its own zone, which is what    *)
(*     Python compares for two datetimes sharing one tzinfo object.        *)
(***************************************************************************)
EXTENDS Integers, Sequences, FiniteSets, TLC

----------------------------------------------------------------------------
(* Bounds of the model *)

NumProcs == 2      \* concurrent requests (coroutines) in flight
MaxRequests == 3   \* requests issued in one behaviour
MaxTicks == 1      \* clock advances in one behaviour
StartNow == 1425   \* the instant (minutes) at which the process starts

Procs == 1..NumProcs

----------------------------------------------------------------------------
(* Python values *)

PyNone == [t |-> "none"]
PyInt(n) == [t |-> "int", v |-> n]
Hundredths(n) == [t |-> "float", h |-> n]
PyStr(s) == [t |-> "str", s |-> s]
EmptyDict == [k \in {} |-> PyNone]

\* bool(x) for the values that occur: None, dicts and strs
Truthy(x) == x \notin {PyNone, EmptyDict, PyStr(<<>>)}

\* dict.get(key): the value, or None when the key is missing
Get(d, key) == IF key \in DOMAIN d THEN d[key] ELSE PyNone

\* d[key] = value
Put(d, key, value) ==
    [k \in DOMAIN d \cup {key} |-> IF k = key THEN value ELSE d[k]]

\* dict.setdefault(key, value)
SetDefault(d, key, value) == IF key \in DOMAIN d THEN d ELSE Put(d, key, value)

\* str.strip(): drop leading and trailing whitespace tokens
RECURSIVE LStrip(_)
LStrip(s) == IF s # <<>> /\ Head(s) = " " THEN LStrip(Tail(s)) ELSE s

RECURSIVE RStrip(_)
RStrip(s) ==
    IF s # <<>> /\ s[Len(s)] = " " THEN RStrip(SubSeq(s, 1, Len(s) - 1)) ELSE s

Strip(x) == PyStr(RStrip(LStrip(x.s)))

\* a datetime.date, and date.isoformat()
PyDate(d) == [t |-> "date", d |-> d]
Iso(d) == <<"date", d>>

----------------------------------------------------------------------------
(* Settings (src/app/config.py): fixed for the life of the process *)

AppTimezone == PyStr(<<"UTC">>)    \* app_timezone, the default
DefaultTtl == 15                   \* cache_ttl_minutes, the default
DefaultFallbackDays == 1           \* data_fallback_days, the default

\* the settings the cache is explored under: caching off and on, no window and
\* the default window
Settings ==
    [app_timezone : {AppTimezone},
     cache_ttl_minutes : {0, DefaultTtl},
     data_fallback_days : {-1, DefaultFallbackDays}]

\* the settings the fallback scan is explored under: windows of 0 and of 2 days
ScanSettings ==
    [app_timezone : {AppTimezone},
     cache_ttl_minutes : {DefaultTtl},
     data_fallback_days : {0, DefaultFallbackDays + 1}]

----------------------------------------------------------------------------
(* Time zones: zoneinfo.ZoneInfo and datetime.now(tz) *)

Utc == PyStr(<<"UTC">>)
Paris == PyStr(<<"Europe/Paris">>)
KnownZones == {Utc, Paris}

\* keys ZoneInfo refuses with ValueError: not a normalised relative path
NonNormalised == {PyStr(<<>>), PyStr(<<"../UTC">>), PyStr(<<"/etc/localtime">>)}

\* ZoneInfo(key): the zone, ZoneInfoNotFoundError, or ValueError
ZoneInfo(key) ==
    IF key \in KnownZones THEN [r |-> "zone", tz |-> [t |-> "ZoneInfo", key |-> key]]
    ELSE IF key \in NonNormalised THEN [r |-> "ValueError"]
    ELSE [r |-> "ZoneInfoNotFoundError"]

\* datetime.timezone.utc, the fixed-offset zone of the fallback
TimezoneUtc == [t |-> "timezone", name |-> "utc"]

MinutesPerDay == 24 * 60
\* Europe/Paris leaves summer time at FallBackAt: UTC+2 before, UTC+1 from then
FallBackAt == StartNow + 1
UtcOffset(tz, instant) ==
    IF tz = [t |-> "ZoneInfo", key |-> Paris]
    THEN (IF instant < FallBackAt THEN 120 ELSE 60)
    ELSE 0

\* datetime.now(tz) at `instant`: the wall-clock reading in tz
WallClock(tz, instant) == instant + UtcOffset(tz, instant)

\* datetime.now(tz).date()
DateOf(wall) == wall \div MinutesPerDay

\* _get_timezone: (tz, tz_key), or the ValueError ZoneInfo raised
_get_timezone(config, tz_alias) ==
    LET chosen == IF Truthy(tz_alias) THEN tz_alias
                  ELSE IF Truthy(config.app_timezone) THEN config.app_timezone
                  ELSE Utc
        tz_key == IF Truthy(Strip(chosen)) THEN Strip(chosen) ELSE Utc
        found == ZoneInfo(tz_key)
    IN  CASE found.r = "zone" -> [r |-> "ok", tz |-> found.tz, tz_key |-> tz_key]
          [] found.r = "ZoneInfoNotFoundError" ->
                [r |-> "ok", tz |-> TimezoneUtc, tz_key |-> Utc]
          [] OTHER -> [r |-> "raise", exc |-> "ValueError: ZoneInfo key"]

\* the comparison turned round: an entry younger than the TTL counts as expired
_is_expired_Reversed(config, created_at, tz, instant) ==
    WallClock(tz, instant) <= created_at + config.cache_ttl_minutes

\* the TTL taken as seconds: timedelta(seconds=...) of less than a minute
_is_expired_Seconds(config, created_at, tz, instant) ==
    WallClock(tz, instant) >= created_at + (config.cache_ttl_minutes \div 60)

\* _is_expired: datetime.now(tz) >= created_at + timedelta(minutes=ttl); both
\* operands carry the same tzinfo, so Python compares their wall-clock readings
_is_expired(config, created_at, tz, instant) ==
    WallClock(tz, instant) >= created_at + config.cache_ttl_minutes

\* the f-string cache key "{tz_key}|{date}"
CacheKey(tz_key, d) == <<tz_key, "|", Iso(d)>>

\* the cache check of build_daily_message: the entry to serve, or None
Lookup(config, store, cache_key, tz, instant) ==
    LET cached == IF cache_key \in DOMAIN store THEN store[cache_key] ELSE PyNone
    IN  IF cached # PyNone /\ ~_is_expired(config, cached.created_at, tz, instant)
        THEN cached
        ELSE PyNone

----------------------------------------------------------------------------
(* The Metrics Source: OuraClient.fetch_daily_metrics *)

OuraDailyMetrics(readiness, sleep, activity) ==
    [readiness |-> readiness, sleep |-> sleep, activity |-> activity]

\* _first_entry gave None for all three: no data that day
NoData == OuraDailyMetrics(PyNone, PyNone, PyNone)
FullDay ==
    OuraDailyMetrics(
        [score |-> PyInt(80)],
        [score |-> PyInt(70), total_sleep_duration |-> PyInt(27000)],
        [score |-> PyInt(60), steps |-> PyInt(9000)])
\* a readiness record without a score, and nothing else
PartialDay == OuraDailyMetrics([id |-> PyInt(1)], PyNone, PyNone)

Raised(e) == [t |-> "raise", exc |-> e]
Returned(v) == [t |-> "return", value |-> v]

TransportErrors == {"HTTPStatusError", "ConnectTimeout"}
FetchOutcomes ==
    {Raised(e) : e \in TransportErrors}
    \cup {Returned(m) : m \in {NoData, FullDay, PartialDay}}

\* any((metrics.readiness, metrics.sleep, metrics.activity))
AnyRecord(metrics) ==
    Truthy(metrics.readiness) \/ Truthy(metrics.sleep) \/ Truthy(metrics.activity)

----------------------------------------------------------------------------
(* The Text Generator: OpenAIClient.generate_daily_message *)

LlmText == PyStr(<<"<p>", "llm", "</p>">>)
\* what chat.completions.create answers with: content, or an exception
CompletionOutcomes ==
    {Raised("APIError"), Returned(LlmText), Returned(PyStr(<<" ">>)),
     Returned(PyStr(<<>>))}

\* generate_daily_message: the content, stripped
generate_daily_message(completion) ==
    IF completion.t = "raise" THEN completion
    ELSE Returned(Strip(completion.value))

----------------------------------------------------------------------------
(* Pure helpers of DailyMessageService *)

\* round(duration / 3600, 2), in hundredths of an hour
Round2Hours(seconds) == Hundredths((seconds * 100 + 1800) \div 3600)

_summarise_metrics(metrics) ==
    LET s1 == IF Truthy(metrics.readiness)
              THEN Put(EmptyDict, "readiness_score", Get(metrics.readiness, "score"))
              ELSE EmptyDict
        duration == Get(metrics.sleep, "total_sleep_duration")
        s2 == IF Truthy(metrics.sleep)
              THEN LET withScore == Put(s1, "sleep_score", Get(metrics.sleep, "score"))
                   IN  IF duration # PyNone
                       THEN Put(withScore, "sleep_duration_hours",
                                Round2Hours(duration.v))
                       ELSE withScore
              ELSE s1
        s3 == IF Truthy(metrics.activity)
              THEN Put(Put(s2, "activity_score", Get(metrics.activity, "score")),
                       "steps", Get(metrics.activity, "steps"))
              ELSE s2
    IN  s3

\* str(n) of a natural number, one token per digit
RECURSIVE Digits(_)
Digits(n) ==
    LET d == <<"0", "1", "2", "3", "4", "5", "6", "7", "8", "9">>[(n % 10) + 1]
    IN  IF n < 10 THEN <<d>> ELSE Digits(n \div 10) \o <<d>>

\* f"{value}" of a score: an int or None
Format(value) == IF value = PyNone THEN <<"None">> ELSE Digits(value.v)

_build_prompt(metrics, summary, target_date) ==
    LET readiness_score == Get(summary, "readiness_score")
        sleep_score == Get(summary, "sleep_score")
        context_blob ==
            <<"You are a daily motivator coach.", " Readiness score: ">>
            \o Format(readiness_score) \o <<" out of 100. Sleep score: ">>
            \o Format(sleep_score) \o <<" out of 100.">>
        structured_payload ==
            [date |-> Iso(target_date),
             summary |-> summary,
             raw_metrics |-> metrics]
    IN  << [role |-> "system", content |-> [text |-> context_blob]],
           [role |-> "user", content |-> [json |-> structured_payload]] >>

_build_fallback_message(summary) ==
    LET readiness == Get(summary, "readiness_score")
        sleep == Get(summary, "sleep_score")
        p0 == << <<"Here's a gentle check-in based on your latest Oura data.">> >>
        p1 == IF readiness # PyNone
              THEN Append(p0, <<"Readiness score: ">> \o Format(readiness) \o <<".">>)
              ELSE p0
        p2 == IF sleep # PyNone
              THEN Append(p1, <<"Sleep score: ">> \o Format(sleep) \o <<".">>)
              ELSE p1
        paragraphs ==
            IF Len(p2) = 1
            THEN Append(p2, <<"Keep looking after yourself today.">>)
            ELSE Append(p2, <<"Keep listening to your body and make thoughtful adjustments as needed.">>)
        RECURSIVE Join(_)
        Join(ps) == IF ps = <<>> THEN <<>>
                    ELSE <<"<p>">> \o Head(ps) \o <<"</p>">> \o Join(Tail(ps))
    IN  PyStr(Join(paragraphs)
              \o <<"<ul><li>",
                   "Take one simple action that respects how you feel right now.",
                   "</li></ul>">>)

\* the payload dict of build_daily_message
MessagePayload_RequestedDate(target, resolved_date, message_text, summary, metrics, tz_key, tz_alias) ==
    [requested_date_iso |-> Iso(target),
     date_iso |-> Iso(target),
     message |-> message_text,
     summary |-> summary,
     metrics |-> metrics,
     timezone |-> tz_key,
     timezone_source |-> IF Truthy(tz_alias) THEN "client" ELSE "config"]

MessagePayload(target, resolved_date, message_text, summary, metrics, tz_key, tz_alias) ==
    [requested_date_iso |-> Iso(target),
     date_iso |-> Iso(resolved_date),
     message |-> message_text,
     summary |-> summary,
     metrics |-> metrics,
     timezone |-> tz_key,
     timezone_source |-> IF Truthy(tz_alias) THEN "client" ELSE "config"]

\* max(0, int(self.config.data_fallback_days))
FallbackWindow(config) ==
    IF config.data_fallback_days > 0 THEN config.data_fallback_days ELSE 0

\* the scan hands back the requested date in place of the candidate
ScanStep_ResolvesTarget(config, target, offset, last_error, outcome) ==
    LET error == IF outcome.t = "raise" THEN PyStr(<<outcome.exc>>) ELSE last_error
    IN  IF outcome.t = "return" /\ AnyRecord(outcome.value)
        THEN [next |-> "return", metrics |-> outcome.value, resolved_date |-> target]
        ELSE IF offset + 1 <= FallbackWindow(config)
        THEN [next |-> "fetch", offset |-> offset + 1, last_error |-> error]
        ELSE IF Truthy(error)
        THEN [next |-> "raise", exc |-> error.s[1]]
        ELSE [next |-> "raise", exc |-> "ValueError: No Oura data available"]

\* the scan takes any fetch that came back, empty or not
ScanStep_AnyReturn(config, target, offset, last_error, outcome) ==
    LET candidate == target - offset
        error == IF outcome.t = "raise" THEN PyStr(<<outcome.exc>>) ELSE last_error
    IN  IF outcome.t = "return"
        THEN [next |-> "return", metrics |-> outcome.value, resolved_date |-> candidate]
        ELSE IF offset + 1 <= FallbackWindow(config)
        THEN [next |-> "fetch", offset |-> offset + 1, last_error |-> error]
        ELSE [next |-> "raise", exc |-> error.s[1]]

\* the scan gives up at the first fetch that raises
ScanStep_AbortOnError(config, target, offset, last_error, outcome) ==
    LET candidate == target - offset
    IN  IF outcome.t = "raise"
        THEN [next |-> "raise", exc |-> outcome.exc]
        ELSE IF AnyRecord(outcome.value)
        THEN [next |-> "return", metrics |-> outcome.value, resolved_date |-> candidate]
        ELSE IF offset + 1 <= FallbackWindow(config)
        THEN [next |-> "fetch", offset |-> offset + 1, last_error |-> last_error]
        ELSE [next |-> "raise", exc |-> "ValueError: No Oura data available"]

\* the scan forgets the recorded error once a fetch comes back
ScanStep_ForgetsError(config, target, offset, last_error, outcome) ==
    LET candidate == target - offset
        error == IF outcome.t = "raise" THEN PyStr(<<outcome.exc>>) ELSE PyNone
    IN  IF outcome.t = "return" /\ AnyRecord(outcome.value)
        THEN [next |-> "return", metrics |-> outcome.value, resolved_date |-> candidate]
        ELSE IF offset + 1 <= FallbackWindow(config)
        THEN [next |-> "fetch", offset |-> offset + 1, last_error |-> error]
        ELSE IF Truthy(error)
        THEN [next |-> "raise", exc |-> error.s[1]]
        ELSE [next |-> "raise", exc |-> "ValueError: No Oura data available"]

\* the scan keeps the first error it recorded
ScanStep_FirstError(config, target, offset, last_error, outcome) ==
    LET candidate == target - offset
        error == IF outcome.t = "raise" /\ last_error = PyNone
                 THEN PyStr(<<outcome.exc>>) ELSE last_error
    IN  IF outcome.t = "return" /\ AnyRecord(outcome.value)
        THEN [next |-> "return", metrics |-> outcome.value, resolved_date |-> candidate]
        ELSE IF offset + 1 <= FallbackWindow(config)
        THEN [next |-> "fetch", offset |-> offset + 1, last_error |-> error]
        ELSE IF Truthy(error)
        THEN [next |-> "raise", exc |-> error.s[1]]
        ELSE [next |-> "raise", exc |-> "ValueError: No Oura data available"]

\* the scan fetches a date again when its fetch raised
ScanStep_RetriesOnError(config, target, offset, last_error, outcome) ==
    LET candidate == target - offset
    IN  IF outcome.t = "raise"
        THEN [next |-> "fetch", offset |-> offset, last_error |-> PyStr(<<outcome.exc>>)]
        ELSE IF AnyRecord(outcome.value)
        THEN [next |-> "return", metrics |-> outcome.value, resolved_date |-> candidate]
        ELSE IF offset + 1 <= FallbackWindow(config)
        THEN [next |-> "fetch", offset |-> offset + 1, last_error |-> last_error]
        ELSE IF Truthy(last_error)
        THEN [next |-> "raise", exc |-> last_error.s[1]]
        ELSE [next |-> "raise", exc |-> "ValueError: No Oura data available"]

\* one turn of the loop of _fetch_metrics_with_fallback, given what the fetch
\* for target - offset came to: return, go on to the next offset, or raise
\* the scan looks one day further back than the window allows
ScanStep_PastWindow(config, target, offset, last_error, outcome) ==
    LET candidate == target - offset
        error == IF outcome.t = "raise" THEN PyStr(<<outcome.exc>>) ELSE last_error
    IN  IF outcome.t = "return" /\ AnyRecord(outcome.value)
        THEN [next |-> "return", metrics |-> outcome.value, resolved_date |-> candidate]
        ELSE IF offset + 1 <= FallbackWindow(config) + 1
        THEN [next |-> "fetch", offset |-> offset + 1, last_error |-> error]
        ELSE IF Truthy(error)
        THEN [next |-> "raise", exc |-> error.s[1]]
        ELSE [next |-> "raise", exc |-> "ValueError: No Oura data available"]

ScanStep(config, target, offset, last_error, outcome) ==
    LET candidate == target - offset
        error == IF outcome.t = "raise" THEN PyStr(<<outcome.exc>>) ELSE last_error
    IN  IF outcome.t = "return" /\ AnyRecord(outcome.value)
        THEN [next |-> "return", metrics |-> outcome.value, resolved_date |-> candidate]
        ELSE IF offset + 1 <= FallbackWindow(config)
        THEN [next |-> "fetch", offset |-> offset + 1, last_error |-> error]
        ELSE IF Truthy(error)
        THEN [next |-> "raise", exc |-> error.s[1]]
        ELSE [next |-> "raise", exc |-> "ValueError: No Oura data available"]

\* only the resolved date's key is written
StoreKeys_ResolvedOnly(tz_key, target, resolved_date) ==
    {CacheKey(tz_key, resolved_date)}

\* the keys build_daily_message stores the payload under
StoreKeys(tz_key, target, resolved_date) ==
    {CacheKey(tz_key, resolved_date), CacheKey(tz_key, target)}

\* a key that has an entry keeps it: the first build to store wins
Store_KeepsExisting(store, keys, entry) ==
    [k \in DOMAIN store \cup keys |-> IF k \in DOMAIN store THEN store[k] ELSE entry]

\* the dict is replaced by one that holds the new entry only
Store_Evicting(store, keys, entry) == [k \in keys |-> entry]

\* self._cache[key] = CachedMessage(...) for each of the keys
Store(store, keys, entry) ==
    [k \in DOMAIN store \cup keys |-> IF k \in keys THEN entry ELSE store[k]]

----------------------------------------------------------------------------
(* The web layer: _build_payload after build_daily_message returned *)

\* oauth_meta when the deployment uses a personal access token
OAuthMeta == [enabled |-> FALSE, connected |-> TRUE]

\* what _build_payload does to the dict it was handed
_build_payload(payload, timezone_hint, config) ==
    LET tzDefault == IF Truthy(timezone_hint) THEN timezone_hint
                     ELSE IF Truthy(config.app_timezone) THEN config.app_timezone
                     ELSE Utc
        srcDefault == IF Truthy(timezone_hint) THEN "client" ELSE "config"
        d1 == SetDefault(payload, "error", PyNone)
        d2 == SetDefault(d1, "timezone", tzDefault)
        d3 == SetDefault(d2, "timezone_source", srcDefault)
        d4 == Put(d3, "oauth_prompt", FALSE)
        d5 == Put(SetDefault(d4, "oauth_prompt", FALSE), "oauth", OAuthMeta)
    IN  SetDefault(SetDefault(d5, "timezone", tzDefault), "timezone_source", srcDefault)

----------------------------------------------------------------------------
(* The access token provider: OuraOAuthService over a TokenStore, and the   *)
(* routes /auth/login, /auth/callback and /auth/disconnect of an            *)
(* authenticated session. The clock is the one of the service, read in      *)
(* seconds.                                                                 *)

NumTasks == 3        \* coroutines: the three _get of a gather ask for the token at once
MaxOAuthCalls == 4   \* get_access_token and /auth/callback calls in one behaviour
MaxLogins == 2       \* /auth/login calls in one behaviour
MaxMinted == 2       \* token responses of the token endpoint in one behaviour

Tasks == 1..NumTasks

\* the 30 seconds a token is taken to expire early
SkewSeconds == 30
SecondsPerMinute == 60

\* datetime.now(timezone.utc), in seconds, and datetime.isoformat() /
\* datetime.fromisoformat()
UtcSeconds(instant) == instant * SecondsPerMinute
IsoInstant(seconds) == PyStr(<<"datetime", seconds>>)

\* TokenStore: the file holds json.dumps(payload), or does not exist
Dumps(payload) == [t |-> "json", v |-> payload]
load(file) == IF file = PyNone THEN PyNone ELSE file.v
save(payload) == Dumps(payload)
clear == PyNone

\* has_tokens: bool(self._store.load())
has_tokens(file) == Truthy(load(file))

\* OuraOAuthService._is_expired(tokens) at `instant`
OAuth_is_expired(tokens, instant) ==
    LET expires_at == Get(tokens, "expires_at")
    IN  IF ~Truthy(expires_at) THEN FALSE
        ELSE IF expires_at.s[1] # "datetime" THEN TRUE
        ELSE UtcSeconds(instant) >= expires_at.s[2] - SkewSeconds

\* what the token endpoint answers to a POST: an error status, or a token
\* document; the n-th document carries the n-th access token
RefreshToken == PyStr(<<"rt">>)
TokenDocuments(n) ==
    [access_token : {PyStr(<<"at", n>>)},
     refresh_token : {PyNone, RefreshToken},
     expires_in : {PyNone, PyInt(SkewSeconds), PyInt(SkewSeconds + SecondsPerMinute)}]
TokenResponses(n) ==
    {Raised("HTTPStatusError")} \cup {Returned(data) : data \in TokenDocuments(n)}

\* _request_token once the POST is answered at `instant`
_request_token(response, instant) ==
    IF response.t = "raise" THEN response
    ELSE LET data == response.value
             expires_in == Get(data, "expires_in")
             expires_at == IF expires_in # PyNone
                           THEN IsoInstant(UtcSeconds(instant) + expires_in.v)
                           ELSE PyNone
         IN  Returned([access_token |-> data["access_token"],
                       refresh_token |-> Get(data, "refresh_token"),
                       expires_at |-> expires_at,
                       scope |-> Get(data, "scope"),
                       token_type |-> Get(data, "token_type")])

\* build_authorisation_url: secrets.token_urlsafe(16) gives a state no earlier
\* call gave; it joins the pending states
build_authorisation_url(pending, issued) ==
    LET state == PyStr(<<"state", Cardinality(issued) + 1>>)
    IN  [state |-> state, pending |-> pending \cup {state}]

\* the check accepts a pending state and leaves it pending
is_state_valid_Keeps(pending, state) ==
    IF Truthy(state) /\ state \in pending
    THEN [ok |-> TRUE, pending |-> pending]
    ELSE [ok |-> FALSE, pending |-> pending]

\* is_state_valid: the answer, and the pending states after it
is_state_valid(pending, state) ==
    IF Truthy(state) /\ state \in pending
    THEN [ok |-> TRUE, pending |-> pending \ {state}]
    ELSE [ok |-> FALSE, pending |-> pending]

\* the lock is there for the taking whoever holds it
CanAcquire_Always(lock) == TRUE

\* asyncio.Lock.acquire goes through at once when the lock is free and nobody
\* is queued for it
CanAcquire(lock) == lock.holder = 0 /\ lock.waiters = <<>>

Free == [holder |-> 0, waiters |-> <<>>]

\* a coroutine that is in neither get_access_token nor oauth_callback
Resting ==
    [pc |-> "idle", op |-> "", state |-> PyNone, tokens |-> PyNone,
     ret |-> PyNone, waited |-> FALSE, refreshed |-> FALSE]

\* the call is over: what it came to, and how it got there
Over(me, ret) == [me EXCEPT !.pc = "done", !.tokens = PyNone, !.ret = ret]

NotConnected == "RuntimeError: Oura account not connected"
MissingRefreshToken == "RuntimeError: Stored Oura tokens missing refresh_token"
InvalidState == "HTTPException 400: Invalid OAuth state"

----------------------------------------------------------------------------
(* State *)

VARIABLES
    config,     \* the Settings of the process
    now,        \* the current instant, in minutes
    ticks,      \* clock advances so far
    nreq,       \* requests issued so far
    cache,      \* DailyMessageService._cache: key -> CachedMessage
    heap,       \* the payload dicts built so far; a payload is referred to by its index
    proc,       \* per request coroutine: its position and locals
    built,      \* history: key -> the payload of the last successful build for that key
    first,      \* history: key -> the payload the first successful call for that key returned
    origin,     \* history: per payload, the fetch (date, outcome) its build ended on
    gather,     \* per coroutine: the asyncio.gather it awaits, and requests left running
    _store,     \* TokenStore: the token file, or None when there is none
    _lock,      \* OuraOAuthService._lock: its holder (0: free) and the queue for it
    _pending_states, \* OuraOAuthService._pending_states
    task,       \* per OAuth coroutine: its position and locals
    seen        \* history: states issued and accepted, tokens handed out, disconnect

\* the state of the OAuth service, and that of the message service
oauthVars == <<_store, _lock, _pending_states, task, seen>>
serviceVars == <<config, now, ticks, nreq, cache, heap, proc, built, first, origin, gather>>

vars == <<serviceVars, oauthVars>>

\* what callers pass: target_date and tz_alias
TargetDates == {PyNone, PyDate(1)}
TzAliases ==
    {PyNone, PyStr(<<" ", "Europe/Paris">>), PyStr(<<"Not/AZone">>),
     PyStr(<<"../UTC">>)}

Idle ==
    [pc |-> "idle", target_date |-> PyNone, tz_alias |-> PyNone,
     tz |-> PyNone, tz_key |-> PyNone, target |-> PyNone,
     offset |-> 0, last_error |-> PyNone, metrics |-> PyNone,
     resolved_date |-> PyNone, prompt |-> PyNone,
     log |-> <<>>, gens |-> 0, ret |-> PyNone, via |-> ""]

CachedMessage(payload, created_at) == [payload |-> payload, created_at |-> created_at]

\* the three requests of fetch_daily_metrics, by the field they fill
Paths == {"readiness", "sleep", "activity"}
\* a request that has not been answered yet
Pending == [t |-> "pending"]
\* no gather is awaited
NoGather ==
    [awaiting |-> FALSE, offset |-> 0,
     results |-> [path \in Paths |-> Pending], stray |-> {}]
\* asyncio.gather over the three _get calls for target - offset: all three
\* requests are in flight at once
Issue(offset, stray) ==
    [awaiting |-> TRUE, offset |-> offset,
     results |-> [path \in Paths |-> Pending], stray |-> stray]

InitWith(settings) ==
    /\ config \in settings
    /\ now = StartNow
    /\ ticks = 0
    /\ nreq = 0
    /\ cache = EmptyDict
    /\ heap = <<>>
    /\ proc = [p \in Procs |-> Idle]
    /\ built = EmptyDict
    /\ first = EmptyDict
    /\ origin = <<>>
    /\ gather = [p \in Procs |-> NoGather]
    /\ _store = PyNone
    /\ _lock = Free
    /\ _pending_states = {}
    /\ task = [t \in Tasks |-> Resting]
    /\ seen = [issued |-> {}, accepted |-> <<>>, minted |-> 0, cleared |-> FALSE]

\* the value build_daily_message hands back: a payload object, or an exception
PayloadRef(obj) == [t |-> "payload", obj |-> obj]
Exception(e) == [t |-> "exc", e |-> e]

\* build_daily_message is over: `ret` is what the caller got; the alias, the
\* zone, the target, `log`, `gens` and `via` stay as the history of the
\* request, the other locals are gone
Done(me, ret, via) ==
    [Idle EXCEPT !.pc = "done", !.ret = ret, !.via = via, !.log = me.log,
                 !.gens = me.gens,
                 !.tz_alias = me.tz_alias, !.tz = me.tz, !.tz_key = me.tz_key,
                 !.target = me.target]

\* the clock moves on
TickSteps == {1, 15}
Tick(d) ==
    /\ ticks < MaxTicks
    /\ now' = now + d
    /\ ticks' = ticks + 1
    /\ UNCHANGED <<oauthVars, config, nreq, cache, heap, proc, built, first, origin, gather>>

\* a request arrives on a free coroutine slot; build_daily_message runs up to
\* its first await: resolve the zone, look the key up
Begin(p, target_date, tz_alias) ==
    /\ proc[p].pc \in {"idle", "done"}
    /\ nreq < MaxRequests
    /\ nreq' = nreq + 1
    /\ LET zone == _get_timezone(config, tz_alias)
           me == [Idle EXCEPT !.target_date = target_date, !.tz_alias = tz_alias]
       IN  IF zone.r = "raise"
           THEN /\ proc' = [proc EXCEPT ![p] = Done(me, Exception(zone.exc), "zone")]
                /\ UNCHANGED <<heap, first>>
           ELSE LET today == DateOf(WallClock(zone.tz, now))
                    target == IF target_date # PyNone THEN target_date.d ELSE today
                    cache_key == CacheKey(zone.tz_key, target)
                    cached == Lookup(config, cache, cache_key, zone.tz, now)
                    mine == [me EXCEPT !.tz = zone.tz, !.tz_key = zone.tz_key,
                                       !.target = PyDate(target)]
                IN  IF cached # PyNone
                    THEN /\ proc' = [proc EXCEPT ![p] = Done(mine, PayloadRef(cached.payload), "cache")]
                         /\ heap' = [heap EXCEPT ![cached.payload] =
                                        _build_payload(@, tz_alias, config)]
                         /\ first' = SetDefault(first, cache_key, cached.payload)
                    ELSE /\ proc' = [proc EXCEPT ![p] = [mine EXCEPT !.pc = "fetch",
                                                                     !.offset = 0]]
                         /\ UNCHANGED <<heap, first>>
    /\ UNCHANGED <<oauthVars, config, now, ticks, cache, built, origin>>

\* the same, with the fetch that follows taken as one step (FetchReturn)
Call(p, target_date, tz_alias) ==
    Begin(p, target_date, tz_alias) /\ UNCHANGED gather

\* what fetch_daily_metrics(target - offset) came to reaches
\* _fetch_metrics_with_fallback, which decides on the date
Decide(p, outcome) ==
    /\ proc[p].pc = "fetch"
    /\ LET me == proc[p]
           candidate == me.target.d - me.offset
           logged == [me EXCEPT !.log = Append(@, [date |-> candidate, outcome |-> outcome])]
           step == ScanStep(config, me.target.d, me.offset, me.last_error, outcome)
       IN  /\ proc' = [proc EXCEPT ![p] =
                CASE step.next = "return" ->
                        [logged EXCEPT
                            !.pc = "generate",
                            !.metrics = step.metrics,
                            !.resolved_date = PyDate(step.resolved_date),
                            !.prompt = _build_prompt(step.metrics,
                                                     _summarise_metrics(step.metrics),
                                                     step.resolved_date),
                            !.gens = @ + 1]
                  [] step.next = "fetch" ->
                        [logged EXCEPT !.offset = step.offset,
                                       !.last_error = step.last_error]
                  [] OTHER ->
                        Done(logged, Exception(step.exc), "scan")]
    /\ UNCHANGED <<oauthVars, config, now, ticks, nreq, cache, heap, built, first, origin>>

\* fetch_daily_metrics(target - offset) comes back, as one step
FetchReturn(p, outcome) ==
    Decide(p, outcome) /\ UNCHANGED gather

\* a generator that raises takes the entry of the requested key with it
GenerateReturn_DropsOnFailure(p, completion) ==
    /\ proc[p].pc = "generate"
    /\ LET me == proc[p]
           answer == generate_daily_message(completion)
           request_cache_key == CacheKey(me.tz_key, me.target.d)
       IN  IF answer.t = "raise"
           THEN /\ proc' = [proc EXCEPT ![p] = Done(me, Exception(answer.exc), "generate")]
                /\ cache' = [k \in DOMAIN cache \ {request_cache_key} |-> cache[k]]
                /\ UNCHANGED <<heap, built, first, origin>>
           ELSE LET summary == _summarise_metrics(me.metrics)
                    message_text == IF ~Truthy(answer.value)
                                    THEN _build_fallback_message(summary)
                                    ELSE answer.value
                    payload == MessagePayload(me.target.d, me.resolved_date.d,
                                              message_text, summary, me.metrics,
                                              me.tz_key, me.tz_alias)
                    obj == Len(heap) + 1
                    entry == CachedMessage(obj, WallClock(me.tz, now))
                    keys == StoreKeys(me.tz_key, me.target.d, me.resolved_date.d)
                    for == {CacheKey(me.tz_key, me.target.d),
                            CacheKey(me.tz_key, me.resolved_date.d)}
                IN  /\ cache' = Store(cache, keys, entry)
                    /\ heap' = Append(heap, _build_payload(payload, me.tz_alias, config))
                    /\ built' = [k \in DOMAIN built \cup for |->
                                    IF k \in for THEN obj ELSE built[k]]
                    /\ first' = SetDefault(first, CacheKey(me.tz_key, me.target.d), obj)
                    /\ origin' = Append(origin, me.log[Len(me.log)])
                    /\ proc' = [proc EXCEPT ![p] = Done(me, PayloadRef(obj), "build")]
    /\ UNCHANGED <<oauthVars, config, now, ticks, nreq, gather>>

\* generate_daily_message comes back: build the payload, store it, return it
GenerateReturn(p, completion) ==
    /\ proc[p].pc = "generate"
    /\ LET me == proc[p]
           answer == generate_daily_message(completion)
       IN  IF answer.t = "raise"
           THEN /\ proc' = [proc EXCEPT ![p] = Done(me, Exception(answer.exc), "generate")]
                /\ UNCHANGED <<cache, heap, built, first, origin>>
           ELSE LET summary == _summarise_metrics(me.metrics)
                    message_text == IF ~Truthy(answer.value)
                                    THEN _build_fallback_message(summary)
                                    ELSE answer.value
                    payload == MessagePayload(me.target.d, me.resolved_date.d,
                                              message_text, summary, me.metrics,
                                              me.tz_key, me.tz_alias)
                    obj == Len(heap) + 1
                    entry == CachedMessage(obj, WallClock(me.tz, now))
                    keys == StoreKeys(me.tz_key, me.target.d, me.resolved_date.d)
                    for == {CacheKey(me.tz_key, me.target.d),
                            CacheKey(me.tz_key, me.resolved_date.d)}
                IN  /\ cache' = Store(cache, keys, entry)
                    /\ heap' = Append(heap, _build_payload(payload, me.tz_alias, config))
                    /\ built' = [k \in DOMAIN built \cup for |->
                                    IF k \in for THEN obj ELSE built[k]]
                    /\ first' = SetDefault(first, CacheKey(me.tz_key, me.target.d), obj)
                    /\ origin' = Append(origin, me.log[Len(me.log)])
                    /\ proc' = [proc EXCEPT ![p] = Done(me, PayloadRef(obj), "build")]
    /\ UNCHANGED <<oauthVars, config, now, ticks, nreq, gather>>

----------------------------------------------------------------------------
(* The service under concurrent requests: every coroutine slot, the aliases   *)
(* that reach the cache or fail at once, one answer of each sort from the     *)
(* collaborators.                                                             *)

Init == InitWith(Settings)

Next ==
    \/ \E d \in TickSteps : Tick(d)
    \/ \E p \in Procs, target_date \in TargetDates,
          tz_alias \in {PyNone, PyStr(<<" ", "Europe/Paris">>), PyStr(<<"../UTC">>)} :
          Call(p, target_date, tz_alias)
    \/ \E p \in Procs,
          outcome \in {Raised("HTTPStatusError"), Returned(NoData), Returned(FullDay)} :
          FetchReturn(p, outcome)
    \/ \E p \in Procs, completion \in {Raised("APIError"), Returned(LlmText)} :
          GenerateReturn(p, completion)

Spec == Init /\ [][Next]_vars

----------------------------------------------------------------------------
(* One request at a time, with every alias and every answer of the         *)
(* collaborators: the fallback scan and the payload in full.                *)

MaxScanRequests == 2

ScanInit == InitWith(ScanSettings)

ScanNext ==
    \/ \E d \in TickSteps : Tick(d)
    \/ \E target_date \in TargetDates, tz_alias \in TzAliases :
          nreq < MaxScanRequests /\ Call(1, target_date, tz_alias)
    \/ \E outcome \in FetchOutcomes : FetchReturn(1, outcome)
    \/ \E completion \in CompletionOutcomes : GenerateReturn(1, completion)

ScanSpec == ScanInit /\ [][ScanNext]_vars

----------------------------------------------------------------------------
(* Two requests, the first on coroutine 1 and the second on coroutine 2,    *)
(* free to overlap at the awaits.                                            *)

RaceNext ==
    \/ \E d \in TickSteps : Tick(d)
    \/ \E target_date \in TargetDates, tz_alias \in {PyNone, PyStr(<<"Not/AZone">>)} :
          \/ nreq = 0 /\ Call(1, target_date, tz_alias)
          \/ nreq = 1 /\ Call(2, target_date, tz_alias)
    \/ \E p \in Procs,
          outcome \in {Raised("HTTPStatusError"), Returned(NoData), Returned(FullDay)} :
          FetchReturn(p, outcome)
    \/ \E p \in Procs, completion \in {Raised("APIError"), Returned(LlmText)} :
          GenerateReturn(p, completion)

RaceSpec == Init /\ [][RaceNext]_vars

----------------------------------------------------------------------------
(* One coroutine with fetch_daily_metrics opened up: the three requests of *)
(* a date are answered one by one, in any order.                            *)

MaxGatherRequests == 2

\* what one GET of _get comes to: the JSON body, or raise_for_status raising
Json(items) == [data |-> items]
Answers(path) ==
    {Raised("HTTPStatusError"), Returned(Json(<<>>)), Returned(Json(<<FullDay[path]>>))}

\* _first_entry: payload.get("data", []), its first item or None
_first_entry(payload) ==
    LET items == IF "data" \in DOMAIN payload THEN payload.data ELSE <<>>
    IN  IF Len(items) > 0 THEN items[1] ELSE PyNone

\* the requests of a gather that have not been answered
Unanswered(results) == {path \in Paths : results[path] = Pending}

\* the gather is over at the first answer of any sort
GatherDone_Any(results) == Unanswered(results) # Paths

\* asyncio.gather returns once every awaitable has its result
GatherDone(results) == Unanswered(results) = {}

\* what the coroutine awaits after the scan has decided on a date: the gather
\* for the next offset, or nothing; requests left unanswered run on
Await(me, stray) ==
    IF me.pc = "fetch" THEN Issue(me.offset, stray)
    ELSE [NoGather EXCEPT !.stray = stray]

\* the request arrives and, on a miss, the gather for the target date starts
GatherCall(p, target_date, tz_alias) ==
    /\ Begin(p, target_date, tz_alias)
    /\ gather' = [gather EXCEPT ![p] = Await(proc'[p], @.stray)]

\* one of the three requests of the awaited gather is answered
Response(p, path, answer) ==
    /\ proc[p].pc = "fetch"
    /\ gather[p].awaiting
    /\ gather[p].results[path] = Pending
    /\ LET g == gather[p]
           results == [g.results EXCEPT ![path] =
                          IF answer.t = "return" THEN answer.value ELSE Pending]
           left(rs) == g.stray \cup {<<nreq, g.offset, q>> : q \in Unanswered(rs) \ {path}}
       IN  IF answer.t = "raise"
           THEN /\ Decide(p, Raised(answer.exc))
                /\ gather' = [gather EXCEPT ![p] = Await(proc'[p], left(g.results))]
           ELSE IF GatherDone(results)
           THEN /\ Decide(p, Returned(OuraDailyMetrics(
                                          _first_entry(results["readiness"]),
                                          _first_entry(results["sleep"]),
                                          _first_entry(results["activity"]))))
                /\ gather' = [gather EXCEPT ![p] = Await(proc'[p], left(results))]
           ELSE /\ gather' = [gather EXCEPT ![p].results = results]
                /\ UNCHANGED <<oauthVars, config, now, ticks, nreq, cache, heap, proc,
                               built, first, origin>>

\* a request left running by a gather that raised is answered; nobody awaits
\* it; it is known by the ordinal of the call, the offset and the path
StrayResponse(p, request) ==
    /\ request \in gather[p].stray
    /\ gather' = [gather EXCEPT ![p].stray = @ \ {request}]
    /\ UNCHANGED <<oauthVars, config, now, ticks, nreq, cache, heap, proc, built, first, origin>>

GatherNext ==
    \/ \E target_date \in TargetDates :
          nreq < MaxGatherRequests /\ GatherCall(1, target_date, PyNone)
    \/ \E path \in Paths : \E answer \in Answers(path) : Response(1, path, answer)
    \/ \E request \in gather[1].stray : StrayResponse(1, request)
    \/ \E completion \in {Raised("APIError"), Returned(LlmText)} :
          GenerateReturn(1, completion)

\* the sub-requests are explored under the default settings
GatherSettings ==
    [app_timezone : {AppTimezone},
     cache_ttl_minutes : {DefaultTtl},
     data_fallback_days : {DefaultFallbackDays}]

GatherInit == InitWith(GatherSettings)

GatherSpec == GatherInit /\ [][GatherNext]_vars

----------------------------------------------------------------------------
(* The OAuth service at work: logins, callbacks, token requests by the      *)
(* Metrics Source, disconnects, and the token endpoint answering.           *)

\* the states a callback may carry: none, the empty one, one never issued,
\* and those issued so far
NeverIssued == PyStr(<<"state", 0>>)
CallbackStates == {PyNone, PyStr(<<>>), NeverIssued} \cup seen.issued

\* GET /auth/login: a state is issued
oauth_login ==
    /\ Cardinality(seen.issued) < MaxLogins
    /\ LET url == build_authorisation_url(_pending_states, seen.issued)
       IN  /\ _pending_states' = url.pending
           /\ seen' = [seen EXCEPT !.issued = @ \cup {url.state}]
    /\ UNCHANGED <<_store, _lock, task, serviceVars>>

\* GET /auth/callback?state=...: the state is checked; a state that passes
\* leads to exchange_code, whose POST is then in flight
oauth_callback(t, state) ==
    /\ task[t].pc \in {"idle", "done"}
    /\ nreq < MaxOAuthCalls
    /\ nreq' = nreq + 1
    /\ LET valid == is_state_valid(_pending_states, state)
           me == [Resting EXCEPT !.op = "oauth_callback", !.state = state]
       IN  /\ _pending_states' = valid.pending
           /\ IF valid.ok
              THEN /\ task' = [task EXCEPT ![t] = [me EXCEPT !.pc = "exchange"]]
                   /\ seen' = [seen EXCEPT !.accepted = Append(@, state)]
              ELSE /\ task' = [task EXCEPT ![t] = Over(me, Raised(InvalidState))]
                   /\ UNCHANGED seen
    /\ UNCHANGED <<_store, _lock, config, now, ticks, cache, heap, proc, built,
                   first, origin, gather>>

\* the POST of exchange_code is answered: the tokens are saved
ExchangeResponse(t, response) ==
    /\ task[t].pc = "exchange"
    /\ response.t = "return" => seen.minted < MaxMinted
    /\ LET token_data == _request_token(response, now)
       IN  IF token_data.t = "raise"
           THEN /\ task' = [task EXCEPT ![t] = Over(@, token_data)]
                /\ UNCHANGED <<_store, seen>>
           ELSE /\ _store' = save(token_data.value)
                /\ task' = [task EXCEPT ![t] = Over(@, Returned(PyStr(<<"/?auth=connected">>)))]
                /\ seen' = [seen EXCEPT !.minted = @ + 1, !.cleared = FALSE]
    /\ UNCHANGED <<_lock, _pending_states, serviceVars>>

\* get_access_token with the lock held, up to the POST of _refresh or to its
\* end; `waiters` are those still queued
Hold(t, me, waiters) ==
    LET tokens == load(_store)
        released == [holder |-> 0, waiters |-> waiters]
    IN  /\ IF ~Truthy(tokens)
           THEN /\ task' = [task EXCEPT ![t] = Over(me, Raised(NotConnected))]
                /\ _lock' = released
           ELSE IF OAuth_is_expired(tokens, now)
           THEN IF ~Truthy(Get(tokens, "refresh_token"))
                THEN /\ task' = [task EXCEPT ![t] = Over(me, Raised(MissingRefreshToken))]
                     /\ _lock' = released
                ELSE /\ task' = [task EXCEPT ![t] = [me EXCEPT !.pc = "refresh",
                                                               !.tokens = tokens]]
                     /\ _lock' = [holder |-> t, waiters |-> waiters]
           ELSE /\ task' = [task EXCEPT ![t] = Over(me, Returned(tokens["access_token"]))]
                /\ _lock' = released
        /\ UNCHANGED <<_store, _pending_states, seen>>

\* a _get asks for the token: get_access_token runs on if the lock can be
\* had, and queues for it otherwise
get_access_token(t) ==
    /\ task[t].pc \in {"idle", "done"}
    /\ nreq < MaxOAuthCalls
    /\ nreq' = nreq + 1
    /\ LET me == [Resting EXCEPT !.op = "get_access_token"]
       IN  IF CanAcquire(_lock)
           THEN Hold(t, me, _lock.waiters)
           ELSE /\ task' = [task EXCEPT ![t] = [me EXCEPT !.pc = "lock", !.waited = TRUE]]
                /\ _lock' = [_lock EXCEPT !.waiters = Append(@, t)]
                /\ UNCHANGED <<_store, _pending_states, seen>>
    /\ UNCHANGED <<config, now, ticks, cache, heap, proc, built, first, origin, gather>>

\* the lock was released and the coroutine at the head of the queue has it
Acquired(t) ==
    /\ task[t].pc = "lock"
    /\ _lock.holder = 0
    /\ _lock.waiters # <<>> /\ Head(_lock.waiters) = t
    /\ Hold(t, task[t], Tail(_lock.waiters))
    /\ UNCHANGED serviceVars

\* the POST of _refresh is answered: the new tokens are saved and the lock
\* is released, or the error goes to the caller
RefreshResponse(t, response) ==
    /\ task[t].pc = "refresh"
    /\ response.t = "return" => seen.minted < MaxMinted
    /\ LET tokens == _request_token(response, now)
       IN  IF tokens.t = "raise"
           THEN /\ task' = [task EXCEPT ![t] = Over(@, tokens)]
                /\ UNCHANGED <<_store, seen>>
           ELSE /\ _store' = save(tokens.value)
                /\ task' = [task EXCEPT ![t] =
                              Over([@ EXCEPT !.refreshed = TRUE],
                                   Returned(tokens.value["access_token"]))]
                /\ seen' = [seen EXCEPT !.minted = @ + 1]
    /\ _lock' = [_lock EXCEPT !.holder = 0]
    /\ UNCHANGED <<_pending_states, serviceVars>>

\* POST /auth/disconnect: the token file is removed
disconnect ==
    /\ _store' = clear
    /\ seen' = [seen EXCEPT !.cleared = TRUE]
    /\ UNCHANGED <<_lock, _pending_states, task, serviceVars>>

OAuthInit == InitWith(GatherSettings)

OAuthNext ==
    \/ \E d \in TickSteps : Tick(d)
    \/ oauth_login
    \/ \E t \in Tasks, state \in CallbackStates : oauth_callback(t, state)
    \/ \E t \in Tasks, response \in TokenResponses(seen.minted + 1) :
          ExchangeResponse(t, response)
    \/ \E t \in Tasks : get_access_token(t)
    \/ \E t \in Tasks : Acquired(t)
    \/ \E t \in Tasks, response \in TokenResponses(seen.minted + 1) :
          RefreshResponse(t, response)
    \/ disconnect

OAuthSpec == OAuthInit /\ [][OAuthNext]_vars

----------------------------------------------------------------------------
(* Properties *)

\* the key a call with these arguments looks up, given the zone it resolved
KeyOfCall(zone, target_date) ==
    CacheKey(zone.tz_key,
             IF target_date # PyNone THEN target_date.d
             ELSE DateOf(WallClock(zone.tz, now)))

\* the key has an entry whose age, now(tz) - created_at, is below the TTL
AgeBelowTtl(k, tz) ==
    /\ k \in DOMAIN cache
    /\ WallClock(tz, now) - cache[k].created_at < config.cache_ttl_minutes

\* p is back from build_daily_message with a payload
Returned_(p) == proc[p].pc = "done" /\ proc[p].ret.t = "payload"

\* C1 (as amended). Cache hit: a call made while the entry of its key has an
\* age below the TTL returns at once, with no fetch_daily_metrics and no
\* generate_daily_message call and the cache untouched, and what it returns is
\* the stored payload: the one the most recent successful build for that key
\* (as its requested or its resolved date) returned.
C1_CacheHit ==
    [][\A p \in Procs, target_date \in TargetDates, tz_alias \in TzAliases :
        LET zone == _get_timezone(config, tz_alias)
        IN  (/\ Call(p, target_date, tz_alias)
             /\ zone.r = "ok"
             /\ AgeBelowTtl(KeyOfCall(zone, target_date), zone.tz))
            => /\ proc'[p].pc = "done"
               /\ proc'[p].via = "cache"
               /\ proc'[p].log = <<>>
               /\ proc'[p].ret = PayloadRef(built[KeyOfCall(zone, target_date)])
               /\ proc'[p].ret = PayloadRef(cache[KeyOfCall(zone, target_date)].payload)
               /\ cache' = cache
               /\ Len(heap') = Len(heap)]_vars

\* a call was served from the cache with the payload of the latest build for
\* its key, which is not the payload the first call for that key returned
C1_Witness ==
    \E p \in Procs :
        /\ Returned_(p)
        /\ proc[p].via = "cache"
        /\ LET k == CacheKey(proc[p].tz_key, proc[p].target.d)
           IN  /\ k \in DOMAIN first
               /\ k \in DOMAIN built
               /\ built[k] = proc[p].ret.obj
               /\ first[k] # proc[p].ret.obj

\* C1 as stated: ... and the payload equals, by value, what the first
\* successful call for that (date, tz) returned.
C1_Original ==
    [][\A p \in Procs, target_date \in TargetDates, tz_alias \in TzAliases :
        LET zone == _get_timezone(config, tz_alias)
        IN  (/\ Call(p, target_date, tz_alias)
             /\ zone.r = "ok"
             /\ AgeBelowTtl(KeyOfCall(zone, target_date), zone.tz)
             /\ KeyOfCall(zone, target_date) \in DOMAIN first)
            => /\ proc'[p].pc = "done"
               /\ proc'[p].log = <<>>
               /\ proc'[p].ret.t = "payload"
               /\ heap'[proc'[p].ret.obj] = heap'[first[KeyOfCall(zone, target_date)]]]_vars

\* p's build has just succeeded: its generate call came back and it returned
BuildReturns(p) ==
    proc[p].pc = "generate" /\ proc'[p].pc = "done" /\ proc'[p].via = "build"

\* the keys whose entry this step created or replaced
Written == {k \in DOMAIN cache' : k \notin DOMAIN cache \/ cache'[k] # cache[k]}

\* C2. Dual-key store: a successful build for requested date D that resolved
\* to R stores its payload under exactly the keys (tz, D) and (tz, R), one key
\* when R = D, and with a positive TTL a lookup of either key right after the
\* store serves that payload.
C2_DualKeyStore ==
    [][\A p \in Procs :
        BuildReturns(p) =>
            LET kD == CacheKey(proc[p].tz_key, proc[p].target.d)
                kR == CacheKey(proc[p].tz_key, proc[p].resolved_date.d)
                obj == proc'[p].ret.obj
            IN  /\ Written = {kD, kR}
                /\ proc[p].resolved_date = proc[p].target => Cardinality(Written) = 1
                /\ proc[p].resolved_date # proc[p].target => Cardinality(Written) = 2
                /\ \A k \in {kD, kR} :
                      /\ cache'[k].payload = obj
                      /\ config.cache_ttl_minutes > 0 =>
                            Lookup(config, cache', k, proc[p].tz, now') = cache'[k]]_vars

\* a build that fell back stored one payload under two keys, and another
\* request, for the resolved date, was served that payload from the cache
C2_Witness ==
    \E p, q \in Procs :
        /\ Returned_(p) /\ proc[p].via = "build"
        /\ Returned_(q) /\ proc[q].via = "cache"
        /\ proc[q].ret = proc[p].ret
        /\ proc[q].target # proc[p].target
        /\ \E k1, k2 \in DOMAIN cache :
              /\ k1 # k2
              /\ cache[k1].payload = proc[p].ret.obj
              /\ cache[k2].payload = proc[p].ret.obj

\* the zone object of a key's time zone
ZoneOfKey(k) == [t |-> "ZoneInfo", key |-> k[1]]

\* C3. Freshness invariant: in every reachable state, every key whose entry
\* has an age below the TTL is served from the cache, and what is served is the
\* payload of the most recent successful build for that key (a build is for
\* the key of its requested date and the key of its resolved date).
C3_Freshness ==
    \A k \in DOMAIN cache :
        AgeBelowTtl(k, ZoneOfKey(k)) =>
            /\ k \in DOMAIN built
            /\ Lookup(config, cache, k, ZoneOfKey(k), now) # PyNone
            /\ Lookup(config, cache, k, ZoneOfKey(k), now).payload = built[k]

\* a live entry holds a payload that is not the first one returned for its key
C3_Witness ==
    \E k \in DOMAIN cache \cap DOMAIN first :
        /\ AgeBelowTtl(k, ZoneOfKey(k))
        /\ cache[k].payload # first[k]
        /\ now > StartNow

\* C4 as stated. A call is served from the cache exactly when its key has an
\* entry with now(tz) - created_at < TTL, every other call goes on to fetch,
\* and with cache_ttl_minutes = 0 every call that resolved its zone fetches.
C4_AsStated ==
    [][\A p \in Procs, target_date \in TargetDates, tz_alias \in TzAliases :
        LET zone == _get_timezone(config, tz_alias)
        IN  (Call(p, target_date, tz_alias) /\ zone.r = "ok")
            => /\ proc'[p].via = "cache"
                    <=> AgeBelowTtl(KeyOfCall(zone, target_date), zone.tz)
               /\ proc'[p].via # "cache" => proc'[p].pc = "fetch"
               /\ config.cache_ttl_minutes = 0 => proc'[p].pc = "fetch"]_vars

----------------------------------------------------------------------------
(* The fallback scan, read off the log of a request: one entry per fetch *)

NonEmpty(e) == e.outcome.t = "return" /\ AnyRecord(e.outcome.value)
IsEmpty(e) == e.outcome.t = "return" /\ ~AnyRecord(e.outcome.value)
IsError(e) == e.outcome.t = "raise"
NoDataError == Exception("ValueError: No Oura data available")

\* C5. Fallback preference: whatever the fetches of a request came to, they
\* were made for target, target - 1, ... in that order and within the window,
\* none before the last had a non-empty record, a build goes on exactly from
\* a non-empty fetch at offset k = (number of fetches) - 1, the payload has
\* date_iso = target - k and requested_date_iso = target (different iff
\* k > 0), and the scan fails only after the whole window had no data.
C5_FallbackPreference ==
    \A p \in Procs :
        LET me == proc[p]
            n == Len(me.log)
        IN  /\ n <= FallbackWindow(config) + 1
            /\ \A i \in 1..n : me.log[i].date = me.target.d - (i - 1)
            /\ \A i \in 1..(n - 1) : ~NonEmpty(me.log[i])
            /\ me.pc = "generate" =>
                    /\ n >= 1 /\ NonEmpty(me.log[n])
                    /\ me.resolved_date = PyDate(me.target.d - (n - 1))
            /\ (me.pc = "done" /\ me.via \in {"build", "generate"}) =>
                    n >= 1 /\ NonEmpty(me.log[n])
            /\ (me.pc = "done" /\ me.via = "build") =>
                    LET payload == heap[me.ret.obj]
                    IN  /\ payload.date_iso = Iso(me.target.d - (n - 1))
                        /\ payload.requested_date_iso = Iso(me.target.d)
                        /\ payload.date_iso # payload.requested_date_iso <=> n - 1 > 0
            /\ (me.pc = "done" /\ me.via = "scan") =>
                    n = FallbackWindow(config) + 1 /\ ~NonEmpty(me.log[n])

\* a build resolved to target - 2 after an error and an empty day
C5_Witness ==
    \E p \in Procs :
        /\ Returned_(p) /\ proc[p].via = "build"
        /\ Len(proc[p].log) = 3
        /\ IsError(proc[p].log[1]) /\ IsEmpty(proc[p].log[2])
        /\ heap[proc[p].ret.obj].date_iso = Iso(proc[p].target.d - 2)

\* C6. Fallback exhaustion: when every offset of the window was fetched and
\* each fetch returned three empty records, the request is over with the
\* no-data ValueError, not a transport error, and the Text Generator was
\* never called.
C6_Exhaustion ==
    \A p \in Procs :
        LET me == proc[p]
            n == Len(me.log)
        IN  (n = FallbackWindow(config) + 1 /\ \A i \in 1..n : IsEmpty(me.log[i]))
            => /\ me.pc = "done" /\ me.via = "scan"
               /\ me.ret = NoDataError
               /\ me.ret.e \notin TransportErrors
               /\ me.gens = 0

\* a window of three days, all empty, ended in the no-data error
C6_Witness ==
    \E p \in Procs :
        /\ proc[p].pc = "done" /\ proc[p].ret = NoDataError
        /\ Len(proc[p].log) = 3
        /\ \A i \in 1..3 : IsEmpty(proc[p].log[i])

\* C7. Error recovery: a fetch that raises before the end of the window does
\* not end the request, the next offset is fetched; and when fetches at nearer
\* offsets raised and a later offset came back with data, the request goes on
\* to the Text Generator with that offset's records and date, and what it
\* returns is a payload built from them; the only error it can still end with
\* is the generator's own.
C7_ErrorRecovery ==
    \A p \in Procs :
        LET me == proc[p]
            n == Len(me.log)
            recovered ==
                /\ n >= 2
                /\ NonEmpty(me.log[n])
                /\ \E i \in 1..(n - 1) : IsError(me.log[i])
        IN  /\ (n >= 1 /\ n <= FallbackWindow(config) /\ IsError(me.log[n]))
                  => (me.pc = "fetch" /\ me.offset = n)
            /\ recovered
                  => \/ /\ me.pc = "generate"
                        /\ me.metrics = me.log[n].outcome.value
                        /\ me.resolved_date = PyDate(me.log[n].date)
                     \/ /\ me.pc = "done" /\ me.via = "build" /\ me.ret.t = "payload"
                        /\ heap[me.ret.obj].metrics = me.log[n].outcome.value
                        /\ heap[me.ret.obj].date_iso = Iso(me.log[n].date)
                     \/ /\ me.pc = "done" /\ me.via = "generate"
                        /\ me.ret = Exception("APIError")

\* a payload was returned although the fetch for the requested date raised
C7_Witness ==
    \E p \in Procs :
        /\ Returned_(p) /\ proc[p].via = "build"
        /\ Len(proc[p].log) >= 2
        /\ IsError(proc[p].log[1])
        /\ heap[proc[p].ret.obj].metrics = proc[p].log[Len(proc[p].log)].outcome.value

\* C8. Escalation: a request ends in the scan only after the whole window
\* was fetched without a non-empty record; it then raises a transport error
\* exactly when at least one fetch raised, whether or not other offsets
\* returned empty records, and the no-data error exactly when none raised.
C8_Escalation ==
    \A p \in Procs :
        LET me == proc[p]
            n == Len(me.log)
        IN  /\ (me.pc = "done" /\ me.via = "scan") =>
                  /\ n = FallbackWindow(config) + 1
                  /\ \A i \in 1..n : ~NonEmpty(me.log[i])
                  /\ me.ret.t = "exc"
                  /\ me.ret.e \in TransportErrors <=> \E i \in 1..n : IsError(me.log[i])
                  /\ me.ret = NoDataError <=> \A i \in 1..n : IsEmpty(me.log[i])
            /\ (me.pc = "done" /\ me.ret.t = "exc" /\ me.ret.e \in TransportErrors) =>
                  me.via = "scan"

\* a transport error reached the caller although an offset returned empty
C8_Witness ==
    \E p \in Procs :
        /\ proc[p].pc = "done" /\ proc[p].via = "scan"
        /\ proc[p].ret.e \in TransportErrors
        /\ \E i \in 1..Len(proc[p].log) : IsEmpty(proc[p].log[i])

\* C8 as stated. A transport error is what the caller gets only if every
\* offset of the window failed with an error.
C8_Original ==
    \A p \in Procs :
        (proc[p].pc = "done" /\ proc[p].ret.t = "exc" /\ proc[p].ret.e \in TransportErrors)
        => \A i \in 1..Len(proc[p].log) : IsError(proc[p].log[i])

\* C9. Nothing fabricated, nothing partial: every payload ever built carries
\* the three records of a fetch that returned, with at least one of them
\* non-empty, for the date in its date_iso; a request that returns a payload
\* returns one of these, from its own build or from the cache; a request
\* whose scan failed or whose generator raised ends with the exception.
C9_NeverFabricates ==
    /\ Len(origin) = Len(heap)
    /\ \A obj \in 1..Len(heap) :
          /\ NonEmpty(origin[obj])
          /\ heap[obj].metrics.readiness = origin[obj].outcome.value.readiness
          /\ heap[obj].metrics.sleep = origin[obj].outcome.value.sleep
          /\ heap[obj].metrics.activity = origin[obj].outcome.value.activity
          /\ heap[obj].date_iso = Iso(origin[obj].date)
    /\ \A p \in Procs :
          proc[p].pc = "done" =>
            /\ proc[p].ret.t \in {"payload", "exc"}
            /\ proc[p].ret.t = "payload" <=> proc[p].via \in {"build", "cache"}
            /\ proc[p].ret.t = "payload" => proc[p].ret.obj \in 1..Len(heap)
            /\ proc[p].via = "scan" => ~NonEmpty(proc[p].log[Len(proc[p].log)])
            /\ proc[p].via = "generate" => proc[p].ret = Exception("APIError")

\* a payload with one record out of three was built after a fallback and
\* served again from the cache
C9_Witness ==
    \E p \in Procs :
        /\ Returned_(p) /\ proc[p].via = "cache"
        /\ origin[proc[p].ret.obj].outcome.value = PartialDay
        /\ origin[proc[p].ret.obj].date # proc[p].target.d

\* the alias is given and its stripped key names no zone
Unresolvable(tz_alias) ==
    /\ Truthy(tz_alias)
    /\ ZoneInfo(IF Truthy(Strip(tz_alias)) THEN Strip(tz_alias) ELSE Utc).r # "zone"

\* C10 as stated. For every alias that cannot be resolved, _get_timezone
\* returns (timezone.utc, "UTC") and the call goes on under the key "UTC"
\* without raising.
C10_AsStated ==
    [][\A p \in Procs, target_date \in TargetDates, tz_alias \in TzAliases :
        (Call(p, target_date, tz_alias) /\ Unresolvable(tz_alias))
        => /\ _get_timezone(config, tz_alias) =
                [r |-> "ok", tz |-> TimezoneUtc, tz_key |-> Utc]
           /\ proc'[p].tz_key = Utc
           /\ proc'[p].via # "zone"
           /\ proc'[p].ret.t # "exc"]_vars

----------------------------------------------------------------------------
(* Keys, zones and the text of the payload *)

\* every key of the cache, the key of every request that resolved its zone
\* and the timezone field of every payload name a zone ZoneInfo knows
ResolvedKeysOnly ==
    /\ \A k \in DOMAIN cache : k[1] \in KnownZones
    /\ \A p \in Procs : proc[p].tz_key # PyNone => proc[p].tz_key \in KnownZones
    /\ \A obj \in 1..Len(heap) : heap[obj].timezone \in KnownZones

\* C11 as stated. Every key written or looked up and every payload's
\* timezone field is built from a resolved key, and every request whose alias
\* cannot be resolved looks up the key ("UTC", date), so that requests with
\* different unresolvable aliases for one date meet at one entry.
C11_AsStated ==
    [][/\ ResolvedKeysOnly'
       /\ \A p \in Procs, target_date \in TargetDates, tz_alias \in TzAliases :
            (Call(p, target_date, tz_alias) /\ Unresolvable(tz_alias))
            => /\ proc'[p].tz_key = Utc
               /\ proc'[p].target # PyNone
               /\ AgeBelowTtl(CacheKey(Utc, proc'[p].target.d), TimezoneUtc)
                    => proc'[p].via = "cache"]_vars

Has(seq, tok) == \E i \in 1..Len(seq) : seq[i] = tok
Count(seq, tok) == Cardinality({i \in 1..Len(seq) : seq[i] = tok})
Opening == "Here's a gentle check-in based on your latest Oura data."
ClosingPlain == "Keep looking after yourself today."
ClosingScored == "Keep listening to your body and make thoughtful adjustments as needed."

\* the text is the synthesized message for a summary with these scores
Synthesized(text, readiness, sleep) ==
    /\ Len(text) >= 3
    /\ <<text[1], text[2], text[3]>> = <<"<p>", Opening, "</p>">>
    /\ Has(text, "Readiness score: ") <=> readiness
    /\ Has(text, "Sleep score: ") <=> sleep
    /\ Has(text, ClosingScored) <=> (readiness \/ sleep)
    /\ Has(text, ClosingPlain) <=> ~(readiness \/ sleep)
    /\ Count(text, "<ul><li>") = 1 /\ Count(text, "</li></ul>") = 1
    /\ text[Len(text)] = "</li></ul>"

\* the Text Generator answered with empty or blank text
Blank(completion) == completion.t = "return" /\ ~Truthy(Strip(completion.value))

\* C12 as stated. Whenever the Text Generator returns empty or blank text the
\* build succeeds and its message is the synthesized one, with the readiness
\* sentence iff the summary has readiness_score and the sleep sentence iff it
\* has sleep_score.
C12_AsStated ==
    [][\A p \in Procs, completion \in CompletionOutcomes :
        (GenerateReturn(p, completion) /\ Blank(completion))
        => LET summary == _summarise_metrics(proc[p].metrics)
           IN  /\ proc'[p].pc = "done" /\ proc'[p].ret.t = "payload"
               /\ Synthesized(heap'[proc'[p].ret.obj].message.s,
                              "readiness_score" \in DOMAIN summary,
                              "sleep_score" \in DOMAIN summary)]_vars

\* the keys of the dict build_daily_message constructs
PayloadKeys ==
    DOMAIN MessagePayload(0, 0, PyNone, EmptyDict, NoData, Utc, PyNone)

\* C13 as stated. No step changes a payload that exists, and every payload,
\* after the request that built it and after every later request, has the
\* keys the build gave it and no others.
C13_AsStated ==
    [][/\ \A obj \in 1..Len(heap) : heap'[obj] = heap[obj]
       /\ \A obj \in 1..Len(heap') : DOMAIN heap'[obj] = PayloadKeys]_vars

\* the zone of the request is the one its alias names
FromAlias(tz_alias) == Truthy(tz_alias) /\ ~Unresolvable(tz_alias)

\* C14 as stated. Every payload a request returns, built or served from the
\* cache, has timezone_source "client" exactly when the zone of that request
\* came from its alias, and "config" otherwise.
C14_AsStated ==
    \A p \in Procs :
        Returned_(p) =>
            LET source == heap[proc[p].ret.obj].timezone_source
            IN  /\ source \in {"client", "config"}
                /\ source = "client" <=> FromAlias(proc[p].tz_alias)

\* the record is there and has the field
HasField(record, name) == record # PyNone /\ name \in DOMAIN record

\* C15 as stated. In every payload each key of the summary is present only
\* if the record it is taken from has the field it is taken from.
C15_AsStated ==
    \A obj \in 1..Len(heap) :
        LET summary == heap[obj].summary
            metrics == heap[obj].metrics
        IN  /\ "readiness_score" \in DOMAIN summary => HasField(metrics.readiness, "score")
            /\ "sleep_score" \in DOMAIN summary => HasField(metrics.sleep, "score")
            /\ "sleep_duration_hours" \in DOMAIN summary
                 => HasField(metrics.sleep, "total_sleep_duration")
            /\ "activity_score" \in DOMAIN summary => HasField(metrics.activity, "score")
            /\ "steps" \in DOMAIN summary => HasField(metrics.activity, "steps")

\* C16. No eviction: no step removes a key from the cache, and an entry is
\* new or different after a step only if a build succeeded in that step and
\* wrote it, as the key of its requested or its resolved date, with the pair
\* of its freshly built payload and the current time of its zone. An entry
\* is the pair (payload object, created_at) that CachedMessage holds.
C16_NoEviction ==
    [][/\ DOMAIN cache \subseteq DOMAIN cache'
       /\ \A k \in DOMAIN cache' :
            (k \notin DOMAIN cache \/ cache'[k] # cache[k])
            => \E p \in Procs :
                 /\ BuildReturns(p)
                 /\ k \in {CacheKey(proc[p].tz_key, proc[p].target.d),
                           CacheKey(proc[p].tz_key, proc[p].resolved_date.d)}
                 /\ proc'[p].ret.obj = Len(heap) + 1
                 /\ cache'[k] = [payload |-> proc'[p].ret.obj,
                                 created_at |-> WallClock(proc[p].tz, now)]]_vars

\* an entry past its TTL is still in the cache while another key's entry has
\* been overwritten by a later build
C16_Witness ==
    \E k1, k2 \in DOMAIN cache :
        /\ k1 # k2
        /\ config.cache_ttl_minutes > 0
        /\ ~AgeBelowTtl(k1, ZoneOfKey(k1))
        /\ k2 \in DOMAIN first /\ cache[k2].payload # first[k2]

\* C17. No single-flight: a request whose key has no entry or a stale one
\* goes on to fetch whatever the other request is doing, also when that one is
\* in the middle of a build for the same key; and every build that succeeds
\* writes its own payload over whatever its keys held, so the entry is the
\* one of the build that stored last.
C17_NoSingleFlight ==
    [][/\ \A p \in Procs, target_date \in TargetDates, tz_alias \in TzAliases :
            LET zone == _get_timezone(config, tz_alias)
            IN  (/\ Call(p, target_date, tz_alias)
                 /\ zone.r = "ok"
                 /\ ~AgeBelowTtl(KeyOfCall(zone, target_date), zone.tz))
                => proc'[p].pc = "fetch" /\ proc'[p].log = <<>>
       /\ \A p \in Procs :
            BuildReturns(p) =>
                /\ cache'[CacheKey(proc[p].tz_key, proc[p].target.d)].payload
                      = proc'[p].ret.obj
                /\ cache'[CacheKey(proc[p].tz_key, proc[p].resolved_date.d)].payload
                      = proc'[p].ret.obj]_vars

\* both requests were for one key, both fetched, generated and stored, and the
\* entry is the payload of the request that started first and stored last
C17_Witness ==
    /\ Returned_(1) /\ proc[1].via = "build"
    /\ Returned_(2) /\ proc[2].via = "build"
    /\ proc[1].tz_key = proc[2].tz_key /\ proc[1].target = proc[2].target
    /\ proc[1].log # <<>> /\ proc[2].log # <<>>
    /\ proc[1].gens = 1 /\ proc[2].gens = 1
    /\ config.cache_ttl_minutes > 0 /\ now = StartNow
    /\ proc[2].ret.obj < proc[1].ret.obj
    /\ cache[CacheKey(proc[1].tz_key, proc[1].target.d)].payload = proc[1].ret.obj

\* the offsets' log entries that are errors
Failing(log) == {i \in 1..Len(log) : IsError(log[i])}
Greatest(S) == CHOOSE i \in S : \A j \in S : j <= i

\* C18. Last error wins: when a request ends in the scan and at least one of
\* its fetches raised, the exception the caller gets is the one raised at the
\* largest offset whose fetch raised, also when offsets after it returned
\* empty records.
C18_LastErrorWins ==
    \A p \in Procs :
        (proc[p].pc = "done" /\ proc[p].via = "scan" /\ Failing(proc[p].log) # {})
        => proc[p].ret =
             Exception(proc[p].log[Greatest(Failing(proc[p].log))].outcome.exc)

\* two different errors, then an empty day: the caller got the second error
C18_Witness ==
    \E p \in Procs :
        /\ proc[p].pc = "done" /\ proc[p].via = "scan"
        /\ Len(proc[p].log) = 3
        /\ IsError(proc[p].log[1]) /\ IsError(proc[p].log[2]) /\ IsEmpty(proc[p].log[3])
        /\ proc[p].log[1].outcome.exc # proc[p].log[2].outcome.exc
        /\ proc[p].ret = Exception(proc[p].log[2].outcome.exc)

\* max(0, data_fallback_days) + 1, from the configured value
MostFetches == (IF config.data_fallback_days < 0 THEN 0 ELSE config.data_fallback_days) + 1

\* C19. Bounded linear scan: a request has made at most
\* max(0, data_fallback_days) + 1 fetches, the i-th for target - (i - 1), so
\* no date twice; every fetch that comes back adds one to that count, a
\* request still scanning has made fewer than the most, and after the last
\* fetch the scan is over with a result or an exception; with a negative
\* data_fallback_days only the target date is fetched.
C19_BoundedScan ==
    [][\A p \in Procs :
        LET me == proc'[p]
            n == Len(me.log)
        IN  /\ n <= MostFetches
            /\ \A i \in 1..n : me.log[i].date = me.target.d - (i - 1)
            /\ me.pc = "fetch" => n < MostFetches /\ me.offset = n
            /\ config.data_fallback_days < 0 => n <= 1
            /\ proc[p].pc = "fetch" /\ me # proc[p] =>
                 /\ n = Len(proc[p].log) + 1
                 /\ me.pc \in {"fetch", "generate", "done"}
                 /\ me.pc = "generate" => me.metrics # PyNone /\ me.resolved_date # PyNone
                 /\ me.pc = "done" => me.ret.t = "exc" /\ n = MostFetches]_vars

\* with data_fallback_days = -1 the scan ended after the one fetch, for the
\* target date, had raised
C19_Witness ==
    \E p \in Procs :
        /\ config.data_fallback_days < 0
        /\ proc[p].pc = "done" /\ proc[p].via = "scan"
        /\ Len(proc[p].log) = 1
        /\ proc[p].log[1].date = proc[p].target.d
        /\ IsError(proc[p].log[1])

\* the log of p grew in this step: the scan decided on a date
Decided(p) == Len(proc'[p].log) = Len(proc[p].log) + 1

\* C20. Fan-out/fan-in per date: a coroutine in the scan awaits one gather,
\* that of its current offset; when a gather starts, its three requests are in
\* flight together, none answered; the scan decides on a date only in the
\* step in which the last of the three answers arrives, from all three
\* answers, or in which an answer is a failure; the gather of the next offset
\* starts in the step of that decision and not before, and the only requests
\* of earlier offsets or earlier calls still running are those a failed gather
\* left behind.
C20_FanOutFanIn ==
    [][\A p \in Procs :
        LET g == gather[p]
            h == gather'[p]
            me == proc'[p]
            entry == me.log[Len(me.log)]
        IN  /\ me.pc = "fetch" <=> h.awaiting
            /\ h.awaiting => h.offset = me.offset
            /\ \A request \in h.stray :
                 \/ request[1] < nreq'
                 \/ /\ request[1] = nreq'
                    /\ request[2] < Len(me.log)
                    /\ IsError(me.log[request[2] + 1])
            /\ h.stray \ g.stray # {} => Decided(p) /\ IsError(entry)
            /\ (h.awaiting /\ (~g.awaiting \/ h.offset # g.offset))
                 => /\ Unanswered(h.results) = Paths
                    /\ ~g.awaiting \/ (Decided(p) /\ h.offset = g.offset + 1)
            /\ Decided(p) =>
                 /\ proc[p].pc = "fetch" /\ g.awaiting
                 /\ entry.date = proc[p].target.d - g.offset
                 /\ \/ /\ IsError(entry)
                       /\ Unanswered(g.results) # {}
                    \/ /\ entry.outcome.t = "return"
                       /\ Cardinality(Unanswered(g.results)) = 1
                       /\ \A path \in Paths \ Unanswered(g.results) :
                            entry.outcome.value[path] = _first_entry(g.results[path])
            /\ proc'[p] # proc[p] /\ proc[p].pc = "fetch" => Decided(p)]_vars

\* the gather for target - 1 has started, its three requests unanswered, while
\* two requests for the target date are still running after the third failed
C20_Witness ==
    \E p \in Procs :
        /\ proc[p].pc = "fetch" /\ proc[p].offset = 1
        /\ gather[p].awaiting /\ gather[p].offset = 1
        /\ Unanswered(gather[p].results) = Paths
        /\ Cardinality(gather[p].stray) = 2
        /\ \A request \in gather[p].stray : request[1] = nreq /\ request[2] = 0
        /\ IsError(proc[p].log[1])

\* the step is one of a call of p that is not handing back a payload
Unfinished(p) ==
    /\ proc'[p] # proc[p]
    /\ ~(proc'[p].pc = "done" /\ proc'[p].ret.t = "payload")

\* the call of p ends in this step by raising
Raises(p) ==
    /\ proc'[p] # proc[p]
    /\ proc'[p].pc = "done" /\ proc'[p].ret.t = "exc"

\* C22. Failed build leaves the cache unchanged: no step of a call other than
\* the one that hands back a payload touches the cache mapping or a payload
\* dict, so a call that raises (in the zone lookup, at the end of the scan
\* with a transport or no-data error, or because the Text Generator raised)
\* leaves keys and entries as they were; a stale entry under its key is still
\* there, with its payload and its created_at.
C22_FailedBuildFrame ==
    [][\A p \in Procs :
        /\ Unfinished(p) => cache' = cache /\ heap' = heap
        /\ Raises(p) =>
             /\ proc'[p].via \in {"zone", "scan", "generate"}
             /\ proc'[p].via = "generate" <=> proc[p].pc = "generate"
             /\ proc'[p].via = "scan" <=> proc[p].pc = "fetch"
             /\ cache' = cache]_vars

\* a call ended with the Text Generator raising and another with the scan
\* raising, each while its key held an entry past its TTL
StaleUnder(p) ==
    LET k == CacheKey(proc[p].tz_key, proc[p].target.d)
    IN  /\ k \in DOMAIN cache
        /\ _is_expired(config, cache[k].created_at, proc[p].tz, now)

C22_Witness ==
    \E p, q \in Procs :
        /\ proc[p].pc = "done" /\ proc[p].via = "generate" /\ StaleUnder(p)
        /\ proc[q].pc = "done" /\ proc[q].via = "scan" /\ StaleUnder(q)

\* C23 as stated. Request echo: every call build_daily_message(d, tz) that
\* returns hands back a payload whose requested_date_iso is the date of this
\* call (d, or today in the zone when d is None), also when the payload comes
\* from the cache.
C23_AsStated ==
    \A p \in Procs :
        Returned_(p) =>
            heap[proc[p].ret.obj].requested_date_iso = Iso(proc[p].target.d)

\* the time zone key and the date a cache key was made of, and the date an
\* isoformat() string stands for
TzOfKey(k) == k[1]
DateOfKey(k) == k[3]
FromIso(iso) == iso[2]

\* C24. Cache entry consistency: in every reachable state, each entry stored
\* under key (tz, d) holds a payload whose timezone is tz and whose date_iso
\* or requested_date_iso is d, with date_iso <= requested_date_iso and
\* requested_date_iso - date_iso <= max(0, data_fallback_days).
C24_EntryConsistency ==
    \A k \in DOMAIN cache :
        LET payload == heap[cache[k].payload]
            resolved == FromIso(payload.date_iso)
            requested == FromIso(payload.requested_date_iso)
        IN  /\ payload.timezone = TzOfKey(k)
            /\ payload.date_iso = DateOfKey(k) \/ payload.requested_date_iso = DateOfKey(k)
            /\ resolved <= requested
            /\ requested - resolved <= FallbackWindow(config)

\* one payload sits under the key of its requested date and under the key of
\* the date it resolved to, a whole window earlier
C24_Witness ==
    \E k1, k2 \in DOMAIN cache :
        LET payload == heap[cache[k1].payload]
        IN  /\ k1 # k2
            /\ cache[k1].payload = cache[k2].payload
            /\ payload.requested_date_iso = DateOfKey(k1)
            /\ payload.date_iso = DateOfKey(k2)
            /\ FromIso(DateOfKey(k1)) - FromIso(DateOfKey(k2)) = FallbackWindow(config)
            /\ FallbackWindow(config) = 2

\* the coroutines whose refresh POST is in flight
Refreshing == {t \in Tasks : task[t].pc = "refresh"}

\* in this step t gets the lock in get_access_token: straight away, or from
\* the queue
TakesLock(t) ==
    /\ task'[t] # task[t]
    /\ task[t].pc \in {"idle", "done", "lock"}
    /\ task'[t].op = "get_access_token"
    /\ task'[t].pc # "lock"

\* C21. Serialised token refresh: whatever the number of concurrent
\* get_access_token callers, at most one refresh request is in flight at any
\* time, and it is the lock holder's; a refresh that succeeds saves the tokens
\* it got; and a caller that gets the lock while the store holds an unexpired
\* token returns that token without refreshing and leaves the store alone.
C21_SerialisedRefresh ==
    [][/\ Cardinality(Refreshing') <= 1
       /\ \A t \in Refreshing' : _lock'.holder = t
       /\ \A t \in Tasks :
            /\ (task[t].pc = "refresh" /\ task'[t].pc = "done" /\ task'[t].ret.t = "return")
                 => /\ task'[t].refreshed
                    /\ has_tokens(_store')
                    /\ task'[t].ret.value = load(_store')["access_token"]
            /\ (TakesLock(t) /\ has_tokens(_store) /\ ~OAuth_is_expired(load(_store), now))
                 => /\ task'[t].pc = "done"
                    /\ task'[t].ret = Returned(load(_store)["access_token"])
                    /\ ~task'[t].refreshed
                    /\ _store' = _store
                    /\ seen'.minted = seen.minted]_vars

\* a caller refreshed an expired token while two others queued for the lock;
\* both then returned the refreshed token without a refresh of their own
C21_Witness ==
    \E t, u, v \in Tasks :
        /\ u # v
        /\ task[t].pc = "done" /\ task[t].refreshed /\ task[t].ret.t = "return"
        /\ \A w \in {u, v} :
              /\ task[w].pc = "done" /\ task[w].waited /\ ~task[w].refreshed
              /\ task[w].ret = task[t].ret
        /\ has_tokens(_store)
        /\ load(_store)["access_token"] = task[t].ret.value

\* C25 as stated. Disconnect is final: from the return of disconnect() until
\* a later exchange_code succeeds, the token store holds no tokens
\* (has_tokens() is false, so get_access_token raises "not connected"),
\* whatever get_access_token calls were in flight when disconnect ran.
C25_AsStated == seen.cleared => ~has_tokens(_store)

\* the states accepted so far
Accepted == {seen.accepted[i] : i \in 1..Len(seen.accepted)}

\* in this step t's callback has its state checked
ChecksState(t) ==
    /\ task'[t] # task[t]
    /\ task[t].pc \in {"idle", "done"}
    /\ task'[t].op = "oauth_callback"

\* C26. OAuth state is single-use: over any sequence of logins and callbacks,
\* is_state_valid(s) answers true exactly when s was returned by an earlier
\* build_authorisation_url and has not been accepted before; so each issued
\* state is accepted at most once, and a missing, empty or never-issued state
\* is rejected, the callback ending with "Invalid OAuth state".
C26_SingleUseState ==
    [][/\ \A t \in Tasks :
            ChecksState(t) =>
                LET s == task'[t].state
                    fresh == s \in seen.issued /\ s \notin Accepted
                IN  /\ is_state_valid(_pending_states, s).ok <=> fresh
                    /\ fresh => /\ task'[t].pc = "exchange"
                                /\ seen'.accepted = Append(seen.accepted, s)
                    /\ ~fresh => /\ task'[t].pc = "done"
                                 /\ task'[t].ret = Raised(InvalidState)
                                 /\ seen'.accepted = seen.accepted
       /\ seen'.accepted # seen.accepted => \E t \in Tasks : ChecksState(t)
       /\ \A i, j \in 1..Len(seen'.accepted) :
            seen'.accepted[i] = seen'.accepted[j] => i = j
       /\ _pending_states' = seen'.issued \ Accepted']_vars

\* a state was issued and accepted, and a second callback with that state
\* was turned down, as was one with a state never issued
C26_Witness ==
    \E t, u \in Tasks :
        /\ task[t].pc = "done" /\ task[t].op = "oauth_callback"
        /\ task[t].state \in Accepted
        /\ task[t].ret = Raised(InvalidState)
        /\ task[u].pc = "done" /\ task[u].op = "oauth_callback"
        /\ task[u].state = NeverIssued
        /\ task[u].ret = Raised(InvalidState)

====
